---- MODULE Spec2Model ----
(***************************************************************************)
(* Model of custom_components/smartthings/fan.py: the capability           *)
(* classifier get_capabilities and the SmartThingsFan entity (feature      *)
(* derivation, percentage <-> speed level translation, the control         *)
(* coroutines with their single await, and the read-back properties).      *)
(*                                                                         *)
(* Python's Optional values are modelled as sequences of length <= 1:      *)
(* None is << >> and a value v is << v >>.                                 *)
(***************************************************************************)
EXTENDS Integers, Sequences, FiniteSets, TLC

VARIABLES
    capabilities,        \* argument of the get_capabilities call under study
    classified,          \* its result, a record [called, result]
    device_capabilities, \* capabilities of self._device (get_capability)
    component,           \* self._component
    supported_features,  \* self._attr_supported_features
    status,              \* self._device.status (top level + components)
    pc,                  \* position of the control coroutine
    call,                \* the control coroutine running or just finished
    issued,              \* device commands sent by that coroutine
    writes               \* async_write_ha_state calls made by that coroutine

vars == <<capabilities, classified, device_capabilities, component,
          supported_features, status, pc, call, issued, writes>>

\* ---------------------------------------------------------------- Optional
None == << >>

Some(v) == << v >>

\* ------------------------------------------------------------ bounds, data
\* longest capability list handed to get_capabilities
MaxCaps == 3

\* pysmartthings Capability identifiers used by fan.py, and one unrelated one
Capability_switch == "switch"

Capability_fan_speed == "fanSpeed"

Capability_air_conditioner_fan_mode == "airConditionerFanMode"

Capability_other == "switchLevel"

CapabilityUniverse ==
    {Capability_switch, Capability_fan_speed,
     Capability_air_conditioner_fan_mode, Capability_other}

\* capability lists of length <= MaxCaps (a Sequence[str])
CapabilityLists ==
    UNION {[1..n -> CapabilityUniverse] : n \in 0..MaxCaps}

\* x in s, for a Python sequence s
In(x, s) == \E i \in 1..Len(s) : s[i] = x

\* SPEED_RANGE = (1, 3)
SPEED_RANGE_low == 1

SPEED_RANGE_high == 3

SPEED_RANGE == <<SPEED_RANGE_low, SPEED_RANGE_high>>

\* ------------------------------------------------------- get_capabilities
optional_FanSpeedFirst ==
    <<Capability_fan_speed, Capability_air_conditioner_fan_mode>>

optional == <<Capability_air_conditioner_fan_mode, Capability_fan_speed>>

\* supported.extend(c for c in optional if c in capabilities)
RECURSIVE extend(_, _, _)
extend(supported, opts, caps) ==
    IF opts = << >> THEN supported
    ELSE extend(IF In(Head(opts), caps) THEN Append(supported, Head(opts))
                                        ELSE supported,
                Tail(opts), caps)

get_capabilities_AnyOrNone(caps) ==
    IF ~In(Capability_switch, caps) THEN None
    ELSE Some(extend(<<Capability_switch>>, optional, caps))

get_capabilities(caps) ==
    IF ~In(Capability_switch, caps) THEN None
    ELSE IF ~(\E i \in 1..Len(optional) : In(optional[i], caps)) THEN None
    ELSE Some(extend(<<Capability_switch>>, optional, caps))

\* ------------------------------------------ homeassistant.util.percentage
\* int_states_in_range(low_high_range)
states_in_range(low_high_range) == low_high_range[2] - low_high_range[1] + 1

\* percentage_to_ranged_value: states * percentage / 100 + offset, a float,
\* kept exact as the fraction num / den
percentage_to_ranged_value(low_high_range, percentage) ==
    [num |-> states_in_range(low_high_range) * percentage
             + (low_high_range[1] - 1) * 100,
     den |-> 100]

\* math.ceil of a fraction with positive denominator (\div floors)
math_ceil(x) == -((-x.num) \div x.den)

math_floor(x) == x.num \div x.den

\* ranged_value_to_percentage: int(((value - offset) * 100) // states);
\* value None makes the subtraction raise TypeError
ranged_value_to_percentage_OffByOne(low_high_range, value) ==
    IF value = None THEN [raised |-> "TypeError", value |-> None]
    ELSE [raised |-> "",
          value |-> Some(((value[1] - low_high_range[1]) * 100)
                         \div states_in_range(low_high_range))]

ranged_value_to_percentage(low_high_range, value) ==
    IF value = None THEN [raised |-> "TypeError", value |-> None]
    ELSE [raised |-> "",
          value |-> Some(((value[1] - (low_high_range[1] - 1)) * 100)
                         \div states_in_range(low_high_range))]

\* --------------------------------------------------------- SmartThingsFan
\* FanEntityFeature flags
TURN_OFF == "TURN_OFF"

TURN_ON == "TURN_ON"

SET_SPEED == "SET_SPEED"

PRESET_MODE == "PRESET_MODE"

\* self._device.get_capability(capability)
get_capability(caps, capability) == capability \in caps

_determine_features_SpeedByCapability(caps) ==
    {TURN_OFF, TURN_ON}
        \cup (IF get_capability(caps, Capability_fan_speed)
              THEN {SET_SPEED} ELSE {})
        \cup (IF get_capability(caps, Capability_air_conditioner_fan_mode)
              THEN {PRESET_MODE} ELSE {})

_determine_features(caps) ==
    {TURN_OFF, TURN_ON, SET_SPEED}
        \cup (IF get_capability(caps, Capability_fan_speed)
              THEN {SET_SPEED} ELSE {})
        \cup (IF get_capability(caps, Capability_air_conditioner_fan_mode)
              THEN {PRESET_MODE} ELSE {})

\* a command handed to self._device: switch_on / switch_off /
\* set_fan_speed(value) / set_fan_mode(mode), with component_id
Command(name, value, mode, component_id) ==
    [command |-> name, value |-> value, mode |-> mode,
     component_id |-> component_id]

\* math.ceil(percentage_to_ranged_value(SPEED_RANGE, percentage))
speed_value_Floor(percentage) ==
    math_floor(percentage_to_ranged_value(SPEED_RANGE, percentage))

speed_value(percentage) ==
    math_ceil(percentage_to_ranged_value(SPEED_RANGE, percentage))

\* the device call _async_set_percentage makes for an Optional percentage
set_percentage_command_NoneAsZero(percentage, comp) ==
    IF percentage = None \/ percentage = Some(0)
        THEN Command("switch_off", None, None, comp)
    ELSE Command("set_fan_speed", Some(speed_value(percentage[1])), None, comp)

set_percentage_command(percentage, comp) ==
    IF percentage = None THEN Command("switch_on", None, None, comp)
    ELSE IF percentage = Some(0) THEN Command("switch_off", None, None, comp)
    ELSE Command("set_fan_speed", Some(speed_value(percentage[1])), None, comp)

turn_on_command_Truthy(features, percentage, comp) ==
    IF SET_SPEED \in features /\ percentage \notin {None, Some(0)}
        THEN set_percentage_command(percentage, comp)
    ELSE Command("switch_on", None, None, comp)

\* the device call async_turn_on makes
turn_on_command(features, percentage, comp) ==
    IF SET_SPEED \in features THEN set_percentage_command(percentage, comp)
    ELSE Command("switch_on", None, None, comp)

\* ------------------------------------------------- device status snapshot
\* the root component and one named sub-component (setup lines 37-42)
Components == {"main", "fan"}

SubComponents == Components \ {"main"}

\* preset modes a caller may ask for; "turbo" is advertised by no component
PresetModes == {"auto", "turbo"}

\* percentages a caller may pass (PercentageValue, 0 meaning off)
Percentages == 0..100

\* the percentages at the two edges of every level bucket of SPEED_RANGE
BoundaryPercentages ==
    {p \in Percentages :
        \/ p \in {0, 1, 100}
        \/ speed_value(p) # speed_value(p + 1)
        \/ speed_value(p) # speed_value(p - 1)}

\* modes a push update may report
ReportedModes == {"auto"}

\* one component's status block
StatusBlock(modes) ==
    [switch |-> FALSE, fan_speed |-> None, fan_mode |-> None,
     supported_ac_fan_modes |-> modes]

\* self._device.status when the entity is set up: nothing reported yet
InitialStatus ==
    [switch |-> FALSE, fan_speed |-> None, fan_mode |-> None,
     supported_ac_fan_modes |-> Some(<<"auto">>),
     components |-> [c \in SubComponents |->
                        StatusBlock(Some(<<"auto", "low">>))]]

status_view_AlwaysMain(st, comp) == st

\* the component-scoped view the properties read
status_view(st, comp) ==
    IF comp = "main" THEN st ELSE st.components[comp]

\* one attribute of one component's block replaced
with_attribute(st, comp, attribute, v) ==
    IF comp = "main" THEN [st EXCEPT ![attribute] = v]
    ELSE [st EXCEPT !.components[comp][attribute] = v]

\* set_status=True: the statuses the device object may hold once the
\* command has succeeded.  The commanded attribute is written; for
\* set_fan_speed the library may in addition derive the switch from the
\* speed, which fan.py does not determine.
set_status_Skipped(st, cmd) == {st}

set_status_IfUnknown(st, cmd) ==
    IF cmd.command = "switch_on"
        THEN {with_attribute(st, cmd.component_id, "switch", TRUE)}
    ELSE IF cmd.command = "switch_off"
        THEN {with_attribute(st, cmd.component_id, "switch", FALSE)}
    ELSE IF cmd.command = "set_fan_speed"
        THEN IF status_view(st, cmd.component_id).fan_speed = None
                THEN {with_attribute(st, cmd.component_id, "fan_speed",
                                     cmd.value)}
             ELSE {with_attribute(st, cmd.component_id, "switch",
                                  cmd.value[1] > 0)}
    ELSE IF status_view(st, cmd.component_id).fan_mode = None
        THEN {with_attribute(st, cmd.component_id, "fan_mode", cmd.mode)}
    ELSE {with_attribute(st, cmd.component_id, "switch",
                         status_view(st, cmd.component_id).switch)}

set_status(st, cmd) ==
    IF cmd.command = "switch_on"
        THEN {with_attribute(st, cmd.component_id, "switch", TRUE)}
    ELSE IF cmd.command = "switch_off"
        THEN {with_attribute(st, cmd.component_id, "switch", FALSE)}
    ELSE IF cmd.command = "set_fan_speed"
        THEN LET w == with_attribute(st, cmd.component_id, "fan_speed",
                                     cmd.value)
             IN {w, with_attribute(w, cmd.component_id, "switch",
                                   cmd.value[1] > 0)}
    ELSE {with_attribute(st, cmd.component_id, "fan_mode", cmd.mode)}

\* --------------------------------------------------- read-back properties
is_on(st, comp) == status_view(st, comp).switch

percentage(st, comp) ==
    ranged_value_to_percentage(SPEED_RANGE, status_view(st, comp).fan_speed)

preset_mode(st, comp) == status_view(st, comp).fan_mode

preset_modes(st, comp) == status_view(st, comp).supported_ac_fan_modes

\* ------------------------------------------------------ control coroutines
NoCall == [method |-> "", percentage |-> None, preset_mode |-> None]

\* async_write_ha_state calls a coroutine makes once its command succeeded:
\* _async_set_percentage line 109, async_set_preset_mode line 114,
\* async_turn_on line 131 (after line 109 on the SET_SPEED path),
\* async_turn_off line 138
writes_after_command_Once(method, features) == 1

writes_after_command(method, features) ==
    IF method = "async_turn_on" /\ SET_SPEED \in features THEN 2 ELSE 1

\* a coroutine runs up to its await: the command is handed to the device
Start(c, cmd) ==
    /\ pc = "idle"
    /\ call' = c
    /\ issued' = <<cmd>>
    /\ writes' = 0
    /\ pc' = "await"
    /\ UNCHANGED <<capabilities, classified, device_capabilities, component,
                   supported_features, status>>

async_set_percentage(p) ==
    Start([method |-> "async_set_percentage", percentage |-> Some(p),
           preset_mode |-> None],
          set_percentage_command(Some(p), component))

async_set_preset_mode_Validated(mode) ==
    IF In(mode, preset_modes(status, component)[1])
        THEN Start([method |-> "async_set_preset_mode", percentage |-> None,
                    preset_mode |-> Some(mode)],
                   Command("set_fan_mode", None, Some(mode), component))
    ELSE /\ pc = "idle"
         /\ call' = [method |-> "async_set_preset_mode", percentage |-> None,
                     preset_mode |-> Some(mode)]
         /\ issued' = << >>
         /\ writes' = 0
         /\ pc' = "failed"
         /\ UNCHANGED <<capabilities, classified, device_capabilities,
                        component, supported_features, status>>

async_set_preset_mode(mode) ==
    Start([method |-> "async_set_preset_mode", percentage |-> None,
           preset_mode |-> Some(mode)],
          Command("set_fan_mode", None, Some(mode), component))

async_turn_on_OnThenSpeed(p, mode) ==
    /\ pc = "idle"
    /\ call' = [method |-> "async_turn_on", percentage |-> p,
                preset_mode |-> mode]
    /\ issued' = IF p \in {None, Some(0)}
                    THEN <<turn_on_command(supported_features, p, component)>>
                 ELSE <<Command("switch_on", None, None, component),
                        turn_on_command(supported_features, p, component)>>
    /\ writes' = 0
    /\ pc' = "await"
    /\ UNCHANGED <<capabilities, classified, device_capabilities, component,
                   supported_features, status>>

async_turn_on_AppliesPreset(p, mode) ==
    Start([method |-> "async_turn_on", percentage |-> p,
           preset_mode |-> mode],
          IF mode # None
              THEN Command("set_fan_mode", None, mode, component)
          ELSE turn_on_command(supported_features, p, component))

async_turn_on(p, mode) ==
    Start([method |-> "async_turn_on", percentage |-> p,
           preset_mode |-> mode],
          turn_on_command(supported_features, p, component))

async_turn_off ==
    Start([method |-> "async_turn_off", percentage |-> None,
           preset_mode |-> None],
          Command("switch_off", None, None, component))

CommandSucceeds_RefreshesFeatures ==
    /\ pc = "await"
    /\ status' \in set_status(status, issued[Len(issued)])
    /\ writes' = writes + writes_after_command(call.method, supported_features)
    /\ pc' = "done"
    /\ supported_features' = _determine_features(device_capabilities)
    /\ UNCHANGED <<capabilities, classified, device_capabilities, component,
                   call, issued>>

\* the awaited command succeeds: the device object sets its status, the
\* coroutine resumes, writes the entity state and returns
CommandSucceeds ==
    /\ pc = "await"
    /\ status' \in set_status(status, issued[Len(issued)])
    /\ writes' = writes + writes_after_command(call.method, supported_features)
    /\ pc' = "done"
    /\ UNCHANGED <<capabilities, classified, device_capabilities, component,
                   supported_features, call, issued>>

CommandFails_StillWrites ==
    /\ pc = "await"
    /\ pc' = "failed"
    /\ writes' = writes + 1
    /\ UNCHANGED <<capabilities, classified, device_capabilities, component,
                   supported_features, status, call, issued>>

\* the awaited command raises: the exception leaves the coroutine
CommandFails ==
    /\ pc = "await"
    /\ pc' = "failed"
    /\ UNCHANGED <<capabilities, classified, device_capabilities, component,
                   supported_features, status, call, issued, writes>>

\* the caller has the result; the entity is ready for the next call
Return ==
    /\ pc \in {"done", "failed"}
    /\ pc' = "idle"
    /\ call' = NoCall
    /\ issued' = << >>
    /\ writes' = 0
    /\ UNCHANGED <<capabilities, classified, device_capabilities, component,
                   supported_features, status>>

\* a push update from the cloud writes one attribute of one component
Confirmation(comp, attribute, v) ==
    /\ status' = with_attribute(status, comp, attribute, v)
    /\ UNCHANGED <<capabilities, classified, device_capabilities, component,
                   supported_features, pc, call, issued, writes>>

\* ------------------------------------------------------------ entity setup
\* capability sets a device may report, as the list get_capabilities takes
ListOf(S) ==
    SelectSeq(<<Capability_switch, Capability_fan_speed,
                Capability_air_conditioner_fan_mode, Capability_other>>,
              LAMBDA c : c \in S)

DeviceCapabilitySets ==
    SUBSET {Capability_switch, Capability_fan_speed,
            Capability_air_conditioner_fan_mode}

\* SmartThingsFan(device, component): "main" only for a device assigned to
\* the fan platform, a named component whatever the device reports
Init ==
    /\ capabilities = << >>
    /\ classified = [called |-> FALSE, result |-> None]
    /\ device_capabilities \in DeviceCapabilitySets
    /\ component \in Components
    /\ component = "main" => get_capabilities(ListOf(device_capabilities)) # None
    /\ supported_features = _determine_features(device_capabilities)
    /\ status = InitialStatus
    /\ pc = "idle"
    /\ call = NoCall
    /\ issued = << >>
    /\ writes = 0

\* the calls Home Assistant may make, with percentages drawn from P
Calls(P) ==
    \/ \E p \in P : async_set_percentage(p)
    \/ \E mode \in PresetModes : async_set_preset_mode(mode)
    \/ \E p \in {None} \cup {Some(q) : q \in P},
          mode \in {None, Some("auto")} : async_turn_on(p, mode)
    \/ async_turn_off

PushUpdate ==
    \E comp \in Components :
        \/ \E v \in BOOLEAN : Confirmation(comp, "switch", v)
        \/ \E v \in 0..SPEED_RANGE_high :
              Confirmation(comp, "fan_speed", Some(v))
        \/ \E v \in ReportedModes : Confirmation(comp, "fan_mode", Some(v))

\* the entity with push updates arriving at any time
Next ==
    \/ Calls(BoundaryPercentages)
    \/ CommandSucceeds
    \/ CommandFails
    \/ Return
    \/ PushUpdate

Spec == Init /\ [][Next]_vars

\* the entity alone, called with every percentage
NextPercent ==
    \/ Calls(Percentages)
    \/ CommandSucceeds
    \/ CommandFails
    \/ Return

SpecPercent == Init /\ [][NextPercent]_vars

\* the device reports another capability set after the entity was built;
\* nothing in fan.py reads the capabilities again after __init__
CapabilitiesChange ==
    /\ \E caps \in DeviceCapabilitySets :
          /\ caps # device_capabilities
          /\ device_capabilities' = caps
    /\ UNCHANGED <<capabilities, classified, component, supported_features,
                   status, pc, call, issued, writes>>

\* the entity on a device whose capabilities change
NextCapabilities ==
    \/ Calls(BoundaryPercentages)
    \/ CommandSucceeds
    \/ CommandFails
    \/ Return
    \/ CapabilitiesChange

SpecCapabilities == Init /\ [][NextCapabilities]_vars

\* ------------------------------------------- the classifier on its own
\* get_capabilities is a pure function: every capability list of length
\* <= MaxCaps is classified once
InitClassify ==
    /\ capabilities \in CapabilityLists
    /\ classified = [called |-> FALSE, result |-> None]
    /\ device_capabilities = {}
    /\ component = "main"
    /\ supported_features = {}
    /\ status = InitialStatus
    /\ pc = "idle"
    /\ call = NoCall
    /\ issued = << >>
    /\ writes = 0

Classify ==
    /\ ~classified.called
    /\ classified' = [called |-> TRUE,
                      result |-> get_capabilities(capabilities)]
    /\ UNCHANGED <<capabilities, device_capabilities, component,
                   supported_features, status, pc, call, issued, writes>>

NextClassify == Classify

SpecClassify == InitClassify /\ [][NextClassify]_vars

\* =================================================================== claims
Elements(s) == {s[i] : i \in 1..Len(s)}

OptionalSet == {Capability_air_conditioner_fan_mode, Capability_fan_speed}

\* C1: get_capabilities returns a list exactly when the input holds switch
\* and at least one of air_conditioner_fan_mode / fan_speed; the list then
\* holds switch and the optional capabilities of the input, nothing else and
\* nothing twice; every other input gives None.
C1_ClassifierContract ==
    classified.called =>
        LET qualifies ==
                /\ Capability_switch \in Elements(capabilities)
                /\ Elements(capabilities) \cap OptionalSet # {}
        IN /\ (classified.result # None) <=> qualifies
           /\ qualifies =>
                /\ Elements(classified.result[1]) =
                       {Capability_switch}
                           \cup (Elements(capabilities) \cap OptionalSet)
                /\ Len(classified.result[1]) =
                       Cardinality(Elements(classified.result[1]))

C1_Witness ==
    /\ classified.called
    /\ capabilities = <<Capability_other, Capability_switch, Capability_fan_speed>>
    /\ classified.result = Some(<<Capability_switch, Capability_fan_speed>>)

\* C10 as stated: after switch, the optional capabilities come in the order
\* in which the input lists them.
C10_InputOrder ==
    (classified.called /\ classified.result # None) =>
        LET r == classified.result[1]
            first(c) == CHOOSE i \in 1..Len(capabilities) :
                           /\ capabilities[i] = c
                           /\ \A j \in 1..(i - 1) : capabilities[j] # c
        IN /\ r[1] = Capability_switch
           /\ \A i, j \in 2..Len(r) :
                 i < j => first(r[i]) < first(r[j])

\* C10 amended: after switch, the optional capabilities come in the fixed
\* order air_conditioner_fan_mode, fan_speed, whatever the input order.
C10_FixedOrder ==
    (classified.called /\ classified.result # None) =>
        LET r == classified.result[1]
        IN /\ r[1] = Capability_switch
           /\ \A i, j \in 2..Len(r) :
                 (r[i] = Capability_air_conditioner_fan_mode
                    /\ r[j] = Capability_fan_speed) => i < j

C10_Witness ==
    /\ classified.called
    /\ capabilities = <<Capability_switch, Capability_fan_speed,
                        Capability_air_conditioner_fan_mode>>
    /\ classified.result = Some(<<Capability_switch,
                                  Capability_air_conditioner_fan_mode,
                                  Capability_fan_speed>>)

\* the coroutine named has started (its command is out) or has just ended
Ran(method) == pc # "idle" /\ call.method = method

\* C2: setPercentage(p), p in 0..100, sends one command: switch_off for 0,
\* set_fan_speed 1 for 1..33, 2 for 34..66, 3 for 67..100.
C2_Quantization ==
    Ran("async_set_percentage") =>
        LET p == call.percentage[1]
        IN issued =
             << IF p = 0 THEN Command("switch_off", None, None, component)
                ELSE IF p <= 33
                    THEN Command("set_fan_speed", Some(1), None, component)
                ELSE IF p <= 66
                    THEN Command("set_fan_speed", Some(2), None, component)
                ELSE Command("set_fan_speed", Some(3), None, component) >>

C2_Witness ==
    /\ pc = "done"
    /\ call.method = "async_set_percentage"
    /\ call.percentage = Some(34)
    /\ issued = <<Command("set_fan_speed", Some(2), None, component)>>

\* what the read-back properties of component comp must show once cmd has
\* been applied to the cached status st
Reflects(st, cmd, comp) ==
    /\ cmd.command = "switch_on" => is_on(st, comp) = TRUE
    /\ cmd.command = "switch_off" => is_on(st, comp) = FALSE
    /\ cmd.command = "set_fan_speed" =>
          percentage(st, comp) =
              [raised |-> "",
               value |-> Some(IF cmd.value = Some(1) THEN 33
                              ELSE IF cmd.value = Some(2) THEN 66
                              ELSE 100)]
    /\ cmd.command = "set_fan_mode" => preset_mode(st, comp) = cmd.mode

C4_FailureSkipsUpdate ==
    /\ [](pc = "failed" => (Len(issued) = 1 /\ writes = 0))
    /\ [](pc = "done" => (Len(issued) = 1 /\ writes >= 1))
    /\ [][(pc = "await" /\ pc' # "await")
             => /\ pc' \in {"done", "failed"}
                /\ issued' = issued
                /\ pc' = "failed" => (status' = status /\ writes' = writes)]_vars
    /\ [][(pc = "idle" /\ pc' # "idle") => status' = status]_vars

C4_Witness ==
    /\ pc = "failed"
    /\ call.method = "async_turn_on"
    /\ call.percentage = Some(100)
    /\ issued = <<Command("set_fan_speed", Some(3), None, component)>>
    /\ status_view(status, component).fan_speed = None
    /\ writes = 0

\* C5: turnOn without a percentage on an entity with SET_SPEED sends
\* switch_on and nothing else.
C5_TurnOnWithoutPercentage ==
    (Ran("async_turn_on") /\ SET_SPEED \in supported_features
        /\ call.percentage = None)
      => issued = <<Command("switch_on", None, None, component)>>

C5_Witness ==
    /\ pc = "done"
    /\ call.method = "async_turn_on"
    /\ call.percentage = None
    /\ SET_SPEED \in supported_features
    /\ issued[1].command = "switch_on"
    /\ is_on(status, component)

\* C6: turnOn on an entity without SET_SPEED sends switch_on only.  No
\* entity is ever without SET_SPEED (see C8), so the formula holds with
\* nothing to witness.
C6_TurnOnWithoutSetSpeed ==
    (Ran("async_turn_on") /\ SET_SPEED \notin supported_features)
      => issued = <<Command("switch_on", None, None, component)>>

C6_NoSuchEntity == SET_SPEED \in supported_features

\* C7: a level L in SPEED_RANGE read back as a percentage and sent again
\* as that percentage is commanded as level L.
C7_RoundTrip ==
    \A comp \in Components :
        LET level == status_view(status, comp).fan_speed
        IN (level # None /\ level[1] \in SPEED_RANGE_low..SPEED_RANGE_high)
             => set_percentage_command(percentage(status, comp).value, comp)
                  = Command("set_fan_speed", level, None, comp)

C7_Witness ==
    /\ status_view(status, component).fan_speed = Some(1)
    /\ percentage(status, component).value = Some(33)
    /\ speed_value(33) = 1

\* C8: every entity has TURN_ON, TURN_OFF and SET_SPEED, with or without
\* the fan_speed capability, and has PRESET_MODE exactly when the device
\* has air_conditioner_fan_mode.
C8_Features ==
    /\ {TURN_ON, TURN_OFF, SET_SPEED} \subseteq supported_features
    /\ PRESET_MODE \in supported_features
         <=> Capability_air_conditioner_fan_mode \in device_capabilities
    /\ supported_features \subseteq {TURN_ON, TURN_OFF, SET_SPEED, PRESET_MODE}

C8_Witness ==
    /\ device_capabilities = {Capability_switch, Capability_fan_speed}
    /\ supported_features = {TURN_ON, TURN_OFF, SET_SPEED}

\* C9 as stated: percentage is None, without failing, when no speed level
\* is known, and the inverse transform of the level otherwise.
C9_PercentageAbsent ==
    \A comp \in Components :
        /\ percentage(status, comp).raised = ""
        /\ status_view(status, comp).fan_speed = None
              => percentage(status, comp).value = None
        /\ status_view(status, comp).fan_speed # None
              => percentage(status, comp).value # None

LevelOf(p) == IF p <= 33 THEN 1 ELSE IF p <= 66 THEN 2 ELSE 3

\* C12: every control operation, whatever its arguments and the entity's
\* features, sends exactly one device command (turnOn with a non-zero
\* percentage sends set_fan_speed alone, not switch_on first); the command
\* goes out when the operation starts, nothing is sent afterwards, and the
\* status and the state write come only with the command's completion.
C12_ExactlyOneCommand ==
    /\ [](pc # "idle" => Len(issued) = 1)
    /\ []((Ran("async_turn_on") /\ call.percentage \notin {None, Some(0)})
            => issued = <<Command("set_fan_speed",
                                  Some(LevelOf(call.percentage[1])),
                                  None, component)>>)
    /\ [](pc = "await" => writes = 0)
    /\ [][(pc # "idle" /\ pc' # "idle") => issued' = issued]_vars
    /\ [][(status' # status \/ writes' > writes)
             => (pc = "await" /\ pc' = "done")]_vars

C12_Witness ==
    /\ pc = "done"
    /\ call.method = "async_turn_on"
    /\ call.percentage = Some(50)
    /\ issued = <<Command("set_fan_speed", Some(2), None, component)>>
    /\ status_view(status, component).fan_speed = Some(2)

\* C13: turnOn never sends set_fan_mode and leaves the cached preset mode
\* as it was, whatever preset mode, percentage and features it is called
\* with; set_fan_mode is sent by setPresetMode only.
C13_TurnOnIgnoresPreset ==
    /\ [](\A i \in 1..Len(issued) :
             issued[i].command = "set_fan_mode"
                => call.method = "async_set_preset_mode")
    /\ [][(pc = "await" /\ pc' = "done" /\ call.method = "async_turn_on")
             => preset_mode(status', component)
                  = preset_mode(status, component)]_vars

C13_Witness ==
    /\ pc = "done"
    /\ call.method = "async_turn_on"
    /\ call.preset_mode = Some("auto")
    /\ call.percentage = Some(100)
    /\ PRESET_MODE \in supported_features
    /\ issued[1].command = "set_fan_speed"
    /\ preset_mode(status, component) = None

\* C14: setPresetMode(mode) sends set_fan_mode with exactly that mode,
\* whether or not the component advertises the mode and whether or not the
\* entity has PRESET_MODE; no mode is refused before the command is sent.
C14_PresetModeUnvalidated ==
    Ran("async_set_preset_mode") =>
        /\ call.preset_mode # None
        /\ issued = <<Command("set_fan_mode", None, call.preset_mode,
                              component)>>

C14_Witness ==
    /\ pc = "done"
    /\ call.method = "async_set_preset_mode"
    /\ call.preset_mode = Some("turbo")
    /\ ~In("turbo", preset_modes(status, component)[1])
    /\ PRESET_MODE \notin supported_features
    /\ issued[1].mode = Some("turbo")
    /\ preset_mode(status, component) = Some("turbo")

\* the four read-back properties of component comp on status st
ReadBack(st, comp) ==
    <<is_on(st, comp), percentage(st, comp), preset_mode(st, comp),
      preset_modes(st, comp)>>

C16_FeaturesFrozen ==
    /\ [][supported_features' = supported_features]_vars
    /\ [](Ran("async_turn_on")
            => issued = <<set_percentage_command(call.percentage,
                                                 component)>>)

C16_Witness ==
    /\ pc = "done"
    /\ call.method = "async_turn_on"
    /\ PRESET_MODE \in supported_features
    /\ device_capabilities = {}

C19_StateWrites ==
    /\ [](pc \in {"idle", "await", "failed"} => writes = 0)
    /\ [](pc = "done" =>
            writes = IF call.method = "async_turn_on"
                        /\ SET_SPEED \in supported_features
                     THEN 2 ELSE 1)
    /\ [][writes' > writes => (pc = "await" /\ pc' = "done")]_vars

C19_Witness ==
    /\ pc = "done"
    /\ call.method = "async_turn_on"
    /\ call.percentage = None
    /\ issued = <<Command("switch_on", None, None, component)>>
    /\ writes = 2

====
